---- MODULE Spec2Model ----
(***************************************************************************)
(* Battle resolution engine of mindforge-backend: the turn orchestrator    *)
(* (services/battle/turn.service.ts), the effect lifecycle manager         *)
(* (effects.service.ts), the battle state operations (state.service.ts),   *)
(* the damage calculator (damage.service.ts), the reward calculator        *)
(* (battle-rewards.service.ts, BattleRewardsRepository).  The operations  *)
(* modelled are the exported service functions; the HTTP controllers       *)
(* (battle.controller.ts) that call them are outside the model.            *)
(*                                                                         *)
(* One battle is modelled (calls on different battles share no rows).      *)
(* Every handler is a sequence of steps, one per group of awaited store    *)
(* operations; a call's position is calls[c].pc.  Spec runs one call at a  *)
(* time (slot 1), SpecDeep does the same for one more turn, and SpecConc   *)
(* lets two calls interleave at the await points.                          *)
(* SpecFail is Spec with a ledger insert that can reject.  SpecEffects,     *)
(* SpecDamage and SpecLevel call the effect lifecycle manager, the damage   *)
(* calculator and the level-up rule directly, on arguments drawn from       *)
(* bounded sets; probe holds the call's arguments and result.               *)
(* Multipliers are kept as integers: STAB, type and critical multipliers   *)
(* are doubled (2 = 1.0x, 3 = 1.5x, 1 = 0.5x), variance is in percent.     *)
(***************************************************************************)
EXTENDS Integers, Sequences, FiniteSets, TLC

\* ---------------------------------------------------------------- bounds
\* Turn requests are accepted while the turn counter is below the bound:
\* MaxTurn in Spec, MaxTurnDeep in SpecDeep, MaxTurnConc in SpecConc
MaxTurn == 2
MaxTurnDeep == 3
MaxTurnConc == 1
\* initializeBattle and finalizeBattle calls issued in a run
MaxAdminOps == 1

\* ------------------------------------------------------------- identities
Null == "null"
Users == {"U1", "U2"}
Pids == {"P1", "E1", "E2"}
LoadOrder == <<"P1", "E1", "E2">>
Calls == {1, 2}
Teams == {"player", "enemy"}
Attrs == {"physicalAttack", "specialAttack", "physicalDefense", "specialDefense", "speed"}
DotTypes == {"burn", "poison", "bleed"}
StunTypes == {"stun", "freeze"}
StatusTypes == {"burn", "poison", "stun"}

\* Static columns of the BattleParticipant rows written by createRandomBattle
Roster ==
  [P1 |-> [participantType |-> "user",  userId |-> "U1", enemyId |-> Null,
           teamId |-> "player", position |-> 1],
   E1 |-> [participantType |-> "enemy", userId |-> Null, enemyId |-> "imp",
           teamId |-> "enemy", position |-> 1],
   E2 |-> [participantType |-> "enemy", userId |-> Null, enemyId |-> "wraith",
           teamId |-> "enemy", position |-> 2]]

\* Enemy templates (Enemy rows with their EnemySkill loadout) and the user
\* rows with their persistent attributes and equipped skills
EnemyTemplates ==
  [imp    |-> [elementalType |-> "nature", health |-> 2, physicalAttack |-> 1,
               specialAttack |-> 1, physicalDefense |-> 2, specialDefense |-> 2,
               speed |-> 3, skills |-> {"claw", "hex"}],
   wraith |-> [elementalType |-> "ghost", health |-> 1, physicalAttack |-> 1,
               specialAttack |-> 1, physicalDefense |-> 2, specialDefense |-> 2,
               speed |-> 4, skills |-> {"claw"}]]

UserTemplates ==
  [U1 |-> [primaryElementalType |-> "fire", health |-> 4, physicalAttack |-> 4,
           specialAttack |-> 1, physicalDefense |-> 4, specialDefense |-> 4,
           speed |-> 5, equipped |-> {"strike", "venom"},
           level |-> 1, experience |-> 80],
   U2 |-> [primaryElementalType |-> "water", health |-> 4, physicalAttack |-> 4,
           specialAttack |-> 1, physicalDefense |-> 4, specialDefense |-> 4,
           speed |-> 5, equipped |-> {"strike"},
           level |-> 1, experience |-> 80]]

\* Skill rows.  "blaze" exists but is not equipped by U1; "phantom" is an id
\* with no Skill row.
NoStatus == "none"
NoAttr == "none"
Skills ==
  [strike |-> [elementalType |-> "normal", attackType |-> "physical", baseDamage |-> 1,
               accuracy |-> 90, statusEffect |-> NoStatus, statusEffectChance |-> 0,
               statusEffectDuration |-> 0, buffType |-> NoAttr, buffValue |-> 0,
               debuffType |-> NoAttr, debuffValue |-> 0],
   venom  |-> [elementalType |-> "poison", attackType |-> "special", baseDamage |-> 1,
               accuracy |-> 100, statusEffect |-> "poison", statusEffectChance |-> 50,
               statusEffectDuration |-> 2, buffType |-> NoAttr, buffValue |-> 0,
               debuffType |-> NoAttr, debuffValue |-> 0],
   blaze  |-> [elementalType |-> "fire", attackType |-> "special", baseDamage |-> 2,
               accuracy |-> 100, statusEffect |-> "burn", statusEffectChance |-> 100,
               statusEffectDuration |-> 1, buffType |-> NoAttr, buffValue |-> 0,
               debuffType |-> NoAttr, debuffValue |-> 0],
   claw   |-> [elementalType |-> "nature", attackType |-> "physical", baseDamage |-> 2,
               accuracy |-> 100, statusEffect |-> NoStatus, statusEffectChance |-> 0,
               statusEffectDuration |-> 0, buffType |-> NoAttr, buffValue |-> 0,
               debuffType |-> "speed", debuffValue |-> 1],
   hex    |-> [elementalType |-> "ghost", attackType |-> "special", baseDamage |-> 1,
               accuracy |-> 100, statusEffect |-> "stun", statusEffectChance |-> 50,
               statusEffectDuration |-> 1, buffType |-> "specialAttack", buffValue |-> 1,
               debuffType |-> NoAttr, debuffValue |-> 0]]
SkillIds == DOMAIN Skills
SubmittableSkillIds == {"strike", "venom", "blaze", "phantom"}

\* ------------------------------------------------------- pure functions
Max(a, b) == IF a >= b THEN a ELSE b
Min(a, b) == IF a <= b THEN a ELSE b

\* floor(n / d) for any sign of n and d, d # 0
FloorDiv(n, d) == IF d > 0 THEN n \div d ELSE (0 - n) \div (0 - d)
\* ceil(n / d), d > 0
CeilDiv(n, d) == 0 - ((0 - n) \div d)

advantageTable(t) ==
  CASE t = "fire"     -> {"nature", "ice", "steel", "bug"}
    [] t = "water"    -> {"fire", "earth", "rock"}
    [] t = "earth"    -> {"electric", "poison", "fire", "rock", "steel"}
    [] t = "air"      -> {"earth", "fighting", "bug"}
    [] t = "light"    -> {"dark", "ghost"}
    [] t = "dark"     -> {"light", "psychic", "ghost"}
    [] t = "nature"   -> {"water", "earth", "rock"}
    [] t = "electric" -> {"water", "air", "flying"}
    [] t = "ice"      -> {"nature", "air", "dragon", "flying"}
    [] t = "psychic"  -> {"fighting", "poison"}
    [] t = "ghost"    -> {"psychic", "ghost"}
    [] t = "steel"    -> {"ice", "rock", "fairy"}
    [] t = "poison"   -> {"nature", "fairy"}
    [] t = "flying"   -> {"fighting", "bug", "nature"}
    [] t = "rock"     -> {"fire", "ice", "flying", "bug"}
    [] OTHER          -> {}

disadvantageTable(t) ==
  CASE t = "fire"     -> {"water", "earth", "rock"}
    [] t = "water"    -> {"nature", "electric"}
    [] t = "earth"    -> {"water", "ice", "nature"}
    [] t = "air"      -> {"electric", "ice", "rock"}
    [] t = "light"    -> {"dark"}
    [] t = "dark"     -> {"light", "fighting", "bug"}
    [] t = "nature"   -> {"fire", "ice", "poison", "flying", "bug"}
    [] t = "electric" -> {"earth", "nature"}
    [] t = "ice"      -> {"fire", "fighting", "rock", "steel"}
    [] t = "psychic"  -> {"dark", "ghost", "bug"}
    [] t = "ghost"    -> {"dark"}
    [] t = "steel"    -> {"fire", "fighting", "earth"}
    [] t = "poison"   -> {"steel", "earth", "psychic"}
    [] t = "flying"   -> {"electric", "ice", "rock"}
    [] t = "rock"     -> {"water", "nature", "fighting", "earth", "steel"}
    [] OTHER          -> {}

immunities(t) ==
  CASE t = "earth"  -> {"electric"}
    [] t = "ghost"  -> {"fighting", "normal"}
    [] t = "dark"   -> {"psychic"}
    [] t = "flying" -> {"earth"}
    [] OTHER        -> {}

\* Twice the multiplier returned by calculateElementalAdvantage
\* (variant: the immunity table is not consulted)
calculateElementalAdvantageNoImmunity(attackerType, defenderType) ==
  IF attackerType = defenderType THEN 1
  ELSE IF defenderType \in advantageTable(attackerType) THEN 3
  ELSE IF defenderType \in disadvantageTable(attackerType) THEN 1
  ELSE 2

calculateElementalAdvantage(attackerType, defenderType) ==
  IF attackerType = defenderType THEN 1
  ELSE IF attackerType \in immunities(defenderType) THEN 0
  ELSE IF defenderType \in advantageTable(attackerType) THEN 3
  ELSE IF defenderType \in disadvantageTable(attackerType) THEN 1
  ELSE 2

\* Random draws of calculateDamage: critical multiplier (doubled) and the
\* variance factor in percent, 0.85 + random * 0.15 with random < 1: the
\* factor never reaches 1.0
CritDraws == {2, 3}
VarianceDraws == {85, 99}

\* result.damage of calculateDamage for a hit; defense # 0
damageOf(attack, defense, baseDamage, stab2, type2, crit2, variance) ==
  IF type2 = 0 THEN 0
  ELSE Max(1, FloorDiv(attack * baseDamage * stab2 * type2 * crit2 * variance,
                       defense * 800))

\* result.damage of calculateDamage as the number the arithmetic produces:
\* with defense 0 the quotient attack / defense is Infinity, -Infinity or
\* NaN, Math.floor keeps it, and Math.max(1, x) is Infinity, 1 or NaN
Integer(n) == [kind |-> "integer", n |-> n]

damageNumber(attack, defense, baseDamage, stab2, type2, crit2, variance) ==
  IF type2 = 0 THEN Integer(0)
  ELSE IF defense # 0
  THEN Integer(damageOf(attack, defense, baseDamage, stab2, type2, crit2, variance))
  ELSE IF attack = 0 \/ baseDamage = 0 THEN [kind |-> "NaN", n |-> 0]
  ELSE IF (attack > 0) = (baseDamage > 0) THEN [kind |-> "Infinity", n |-> 0]
  ELSE Integer(1)

\* effectValue of calculateDamage for a proposed status effect
effectValueOf(statusEffect, defenderHealth, damage) ==
  CASE statusEffect = "burn"   -> CeilDiv(defenderHealth, 15)
    [] statusEffect = "poison" -> CeilDiv(defenderHealth, 10)
    [] statusEffect = "bleed"  -> Max(7, (damage * 18) \div 100)
    [] OTHER                   -> 0

\* Math.floor(currentPhysicalAttack * 0.3)
burnReduction(physicalAttack) == (physicalAttack * 3) \div 10
\* Math.round(currentPhysicalAttack / 0.7) - currentPhysicalAttack
burnRestore(physicalAttack) == ((20 * physicalAttack + 7) \div 14) - physicalAttack

RECURSIVE Pow(_, _)
Pow(b, e) == IF e = 0 THEN 1 ELSE b * Pow(b, e - 1)

\* Math.floor(100 * Math.pow(1.5, currentLevel - 1))
\* (variant: every level asks for the experience of level 1)
calculateExperienceFlat(currentLevel) == 100

calculateExperienceForNextLevel(currentLevel) ==
  (100 * Pow(3, currentLevel - 1)) \div Pow(2, currentLevel - 1)

RECURSIVE levelUpLoop(_, _, _)
levelUpLoop(newLevel, totalExp, newAttributePoints) ==
  IF totalExp >= calculateExperienceForNextLevel(newLevel)
  THEN levelUpLoop(newLevel + 1, totalExp - calculateExperienceForNextLevel(newLevel),
                   newAttributePoints + 3)
  ELSE [newLevel |-> newLevel, newExp |-> totalExp,
        newAttributePoints |-> newAttributePoints]

checkLevelUp(currentLevel, currentExp, expGained) ==
  LET r == levelUpLoop(currentLevel, currentExp + expGained, 0)
  IN  [newLevel |-> r.newLevel, leveledUp |-> r.newLevel > currentLevel,
       newAttributePoints |-> r.newAttributePoints, newExp |-> r.newExp]

RECURSIVE SumOver(_, _)
SumOver(S, f) ==
  IF S = {} THEN 0 ELSE LET x == CHOOSE y \in S : TRUE IN f[x] + SumOver(S \ {x}, f)

\* Math.max(1, Math.floor(sum of the enemy template's five stats / 20))
enemyLevelOf(e) ==
  Max(1, (e.physicalAttack + e.specialAttack + e.physicalDefense
          + e.specialDefense + e.speed) \div 20)

\* Math.floor(20 * average(enemyLevels) * difficultyMultiplier); levels is a
\* function from the enemy participants to their levels, non-empty
calculateBattleExperience(levels, difficulty) ==
  LET mult4 == IF difficulty = "easy" THEN 4
               ELSE IF difficulty = "normal" THEN 5
               ELSE IF difficulty = "hard" THEN 6 ELSE 4
      n == Cardinality(DOMAIN levels)
  IN  (20 * SumOver(DOMAIN levels, levels) * mult4) \div (4 * n)

\* ------------------------------------------------------------------ state
VARIABLES
  battle,         \* the Battle row: currentTurn, isFinished, winnerId
  parts,          \* BattleParticipant rows: current health and combat stats
  statusEffects,  \* active BattleStatusEffect rows, per participant and type
  buffs,          \* active BattleBuff rows, per participant and attribute
  users,          \* User rows: level, experience, attributePointsToDistribute
  rewards,        \* BattleReward rows of this battle (the user ids)
  calls,          \* the in-flight handler calls: position and local variables
  adminOps,       \* number of initializeBattle and finalizeBattle calls so far
  probe           \* a direct call of one service function: arguments and result

vars == <<battle, parts, statusEffects, buffs, users, rewards, calls, adminOps, probe>>

StatsOf(t) ==
  [currentHealth |-> t.health, currentPhysicalAttack |-> t.physicalAttack,
   currentSpecialAttack |-> t.specialAttack,
   currentPhysicalDefense |-> t.physicalDefense,
   currentSpecialDefense |-> t.specialDefense, currentSpeed |-> t.speed]

TemplateOf(p) ==
  IF Roster[p].participantType = "user" THEN UserTemplates[Roster[p].userId]
  ELSE EnemyTemplates[Roster[p].enemyId]

NoEffect == [remainingTurns |-> 0, value |-> 0]
NoBuff == [value |-> 0, remainingTurns |-> 0, stackCount |-> 0]
NoAction == [set |-> FALSE, targetId |-> Null, skillId |-> Null]
NoResult == [set |-> FALSE, damage |-> 0, accuracy |-> FALSE, message |-> "none"]
NoReturn == [status |-> "none", isFinished |-> FALSE, winnerTeam |-> Null,
             turnNumber |-> 0, error |-> "none"]
NoRewardReturn == [status |-> "none", experience |-> 0, levelUp |-> FALSE,
                   attributePointsGained |-> 0, error |-> "none"]
NoLevelUp == [newLevel |-> 0, leveledUp |-> FALSE, newAttributePoints |-> 0, newExp |-> 0]
NoBattle == [currentTurn |-> 0, isFinished |-> FALSE, winnerId |-> Null]
NoStats == [currentHealth |-> 0, currentPhysicalAttack |-> 0, currentSpecialAttack |-> 0,
            currentPhysicalDefense |-> 0, currentSpecialDefense |-> 0, currentSpeed |-> 0]

NoProbe == [op |-> "none", calls |-> 0]

IdleCall ==
  [op |-> "none", user |-> Null, pc |-> "idle", b0 |-> NoBattle,
   mem |-> [p \in Pids |-> NoStats], actions |-> [p \in Pids |-> NoAction],
   stunned |-> {}, order |-> <<>>, idx |-> 0,
   results |-> [p \in Pids |-> NoResult], ret |-> NoReturn,
   experienceGained |-> 0, levelUp |-> NoLevelUp, rret |-> NoRewardReturn]

\* createRandomBattle: the Battle row and the participants seeded from the
\* owner's persistent attributes
InitialBattle == [currentTurn |-> 0, isFinished |-> FALSE, winnerId |-> Null]
InitialParts == [p \in Pids |-> StatsOf(TemplateOf(p))]
InitialUsers == [u \in Users |-> [level |-> UserTemplates[u].level,
                                  experience |-> UserTemplates[u].experience,
                                  attributePointsToDistribute |-> 0]]

Init ==
  /\ battle = InitialBattle
  /\ parts = InitialParts
  /\ statusEffects = [p \in Pids |-> [t \in StatusTypes |-> NoEffect]]
  /\ buffs = [p \in Pids |-> [a \in Attrs |-> NoBuff]]
  /\ users = InitialUsers
  /\ rewards = {}
  /\ calls = [c \in Calls |-> IdleCall]
  /\ adminOps = 0
  /\ probe = NoProbe

\* ------------------------------------------------------- store helpers
AttrField(a) ==
  CASE a = "physicalAttack"  -> "currentPhysicalAttack"
    [] a = "specialAttack"   -> "currentSpecialAttack"
    [] a = "physicalDefense" -> "currentPhysicalDefense"
    [] a = "specialDefense"  -> "currentSpecialDefense"
    [] a = "speed"           -> "currentSpeed"

TeamPids(team) == {p \in Pids : Roster[p].teamId = team}
OtherTeam(team) == IF team = "player" THEN "enemy" ELSE "player"
TeamOfId(id) == IF id \in Pids THEN Roster[id].teamId ELSE Null

\* checkTeamStatus
playerDefeated(ps) == \A p \in TeamPids("player") : ps[p].currentHealth <= 0
enemyDefeated(ps) == \A p \in TeamPids("enemy") : ps[p].currentHealth <= 0

\* first element of LoadOrder satisfying P, or Null
RECURSIVE FirstIn(_, _)
FirstIn(seq, S) ==
  IF seq = <<>> THEN Null
  ELSE IF Head(seq) \in S THEN Head(seq) ELSE FirstIn(Tail(seq), S)

getWinnerTeamRepresentativeId(ps, winnerTeam) ==
  LET alive == {p \in TeamPids(winnerTeam) : ps[p].currentHealth > 0}
  IN  IF alive # {} THEN FirstIn(LoadOrder, alive)
      ELSE FirstIn(LoadOrder, TeamPids(winnerTeam))

\* orderParticipantsBySpeed: stable sort of the loaded participants by the
\* loaded (in-memory) speed, descending
RECURSIVE InsertBySpeed(_, _, _)
InsertBySpeed(seq, p, ps) ==
  IF seq = <<>> THEN <<p>>
  ELSE IF ps[Head(seq)].currentSpeed >= ps[p].currentSpeed
       THEN <<Head(seq)>> \o InsertBySpeed(Tail(seq), p, ps)
       ELSE <<p>> \o seq

RECURSIVE SortBySpeed(_, _)
SortBySpeed(seq, ps) ==
  IF seq = <<>> THEN <<>>
  ELSE InsertBySpeed(SortBySpeed(SubSeq(seq, 1, Len(seq) - 1), ps), seq[Len(seq)], ps)

orderParticipantsBySpeed(ps) == SortBySpeed(LoadOrder, ps)

\* getParticipantElementalType
getParticipantElementalType(p) ==
  IF Roster[p].participantType = "user" THEN TemplateOf(p).primaryElementalType
  ELSE TemplateOf(p).elementalType

\* --------------------------------------------- effect lifecycle manager
\* A store image threaded through the writes of one step
Db(ps, se, bf) == [parts |-> ps, statusEffects |-> se, buffs |-> bf]

\* applyStatusEffect(participantId, effect)
\* (variant: an active effect of the same type does not stop a new one)
statusEffectAcceptedAgain(db, pid, effect) == effect.applied

statusEffectAccepted(db, pid, effect) ==
  effect.applied /\ db.statusEffects[pid][effect.type].remainingTurns <= 0

applyStatusEffect(db, pid, effect) ==
  IF ~statusEffectAccepted(db, pid, effect) THEN db
  ELSE LET se == [db.statusEffects EXCEPT ![pid][effect.type] =
                    [remainingTurns |-> effect.duration, value |-> effect.value]]
           pa == db.parts[pid].currentPhysicalAttack
           ps == IF effect.type = "burn"
                 THEN [db.parts EXCEPT ![pid].currentPhysicalAttack = pa - burnReduction(pa)]
                 ELSE db.parts
       IN  Db(ps, se, db.buffs)

\* applyBuff, line 93: an existing buff below the limit of 3 stacks grows
\* (variant: every application grows the stack)
belowStackLimitAlways(existing) == TRUE

belowStackLimit(existing) == existing.stackCount < 3

\* applyBuff(participantId, buff); a debuff is a buff with a negated value
applyBuff(db, pid, buff) ==
  LET existing == db.buffs[pid][buff.attribute]
      f == AttrField(buff.attribute)
      bumped == [db.parts EXCEPT ![pid][f] = @ + buff.value]
  IN  IF ~buff.applied THEN db
      ELSE IF existing.remainingTurns > 0
      THEN IF belowStackLimit(existing)
           THEN Db(bumped, db.statusEffects,
                   [db.buffs EXCEPT ![pid][buff.attribute] =
                      [value |-> existing.value + buff.value,
                       remainingTurns |-> buff.duration,
                       stackCount |-> existing.stackCount + 1]])
           ELSE db
      ELSE Db(bumped, db.statusEffects,
              [db.buffs EXCEPT ![pid][buff.attribute] =
                 [value |-> buff.value, remainingTurns |-> buff.duration,
                  stackCount |-> 1]])

\* The value applyBuff returns: false for a buff that is not applied, true
\* on both the stacking and the creating path
applyBuffReturns(buff) == buff.applied

\* processStatusEffects, for one participant: every active effect loses one
\* turn, damage-over-time effects are subtracted from health, an expiring
\* burn gives back Math.round(attack / 0.7) - attack
ActiveEffects(se, pid) == {t \in StatusTypes : se[pid][t].remainingTurns > 0}

tickedHealth(ps, se, pid) ==
  ps[pid].currentHealth
    - SumOver(ActiveEffects(se, pid) \cap DotTypes, [t \in StatusTypes |-> se[pid][t].value])

tickedPhysicalAttack(ps, se, pid) ==
  LET pa == ps[pid].currentPhysicalAttack
  IN  IF "burn" \in ActiveEffects(se, pid) /\ se[pid]["burn"].remainingTurns <= 1
         /\ burnRestore(pa) > 0
      THEN pa + burnRestore(pa) ELSE pa

\* (variant: an effect in its last turn stays active)
tickedEffectKept(e) ==
  IF e.remainingTurns > 1 THEN [e EXCEPT !.remainingTurns = @ - 1] ELSE e

tickedEffect(e) ==
  IF e.remainingTurns > 1 THEN [e EXCEPT !.remainingTurns = @ - 1] ELSE NoEffect

processStatusEffects(db) ==
  Db([p \in Pids |-> [db.parts[p] EXCEPT
                        !.currentHealth = tickedHealth(db.parts, db.statusEffects, p),
                        !.currentPhysicalAttack =
                            tickedPhysicalAttack(db.parts, db.statusEffects, p)]],
     [p \in Pids |-> [t \in StatusTypes |-> tickedEffect(db.statusEffects[p][t])]],
     db.buffs)

\* (variant: no effect prevents acting)
stunnedByNone(se) == {}

stunnedBy(se) == {p \in Pids : ActiveEffects(se, p) \cap StunTypes # {}}

\* processBuffs: every active buff loses one turn; an expiring buff takes
\* value * stackCount off its attribute
expiryDelta(b) ==
  IF b.remainingTurns > 0 /\ b.remainingTurns <= 1 THEN b.value * b.stackCount ELSE 0

tickedBuff(b) ==
  IF b.remainingTurns > 1 THEN [b EXCEPT !.remainingTurns = @ - 1] ELSE NoBuff

processBuffs(db) ==
  Db([p \in Pids |->
        [currentHealth |-> db.parts[p].currentHealth,
         currentPhysicalAttack |-> db.parts[p].currentPhysicalAttack
                                     - expiryDelta(db.buffs[p]["physicalAttack"]),
         currentSpecialAttack |-> db.parts[p].currentSpecialAttack
                                     - expiryDelta(db.buffs[p]["specialAttack"]),
         currentPhysicalDefense |-> db.parts[p].currentPhysicalDefense
                                     - expiryDelta(db.buffs[p]["physicalDefense"]),
         currentSpecialDefense |-> db.parts[p].currentSpecialDefense
                                     - expiryDelta(db.buffs[p]["specialDefense"]),
         currentSpeed |-> db.parts[p].currentSpeed - expiryDelta(db.buffs[p]["speed"])]],
     db.statusEffects,
     [p \in Pids |-> [a \in Attrs |-> tickedBuff(db.buffs[p][a])]])

\* ----------------------------------------------------- damage calculator
\* The random draws one calculateDamage call makes for a skill: accuracy
\* roll, critical roll, variance, status chance roll, status duration
hasStatus(sk) ==
  sk.statusEffect # NoStatus /\ sk.statusEffectChance # 0 /\ sk.statusEffectDuration # 0

DrawsFor(sk) ==
  {[hit |-> FALSE, crit |-> 2, variance |-> 85, statusApplied |-> FALSE, duration |-> 1]
     : x \in IF sk.accuracy < 100 THEN {1} ELSE {}}
  \cup
  [hit : {TRUE}, crit : CritDraws, variance : VarianceDraws,
   statusApplied : IF ~hasStatus(sk) THEN {FALSE}
                   ELSE IF sk.statusEffectChance >= 100 THEN {TRUE} ELSE BOOLEAN,
   duration : IF hasStatus(sk) THEN 1 .. sk.statusEffectDuration ELSE {1}]

calculateDamage(attacker, defender, sk, attackerType, defenderType, d) ==
  IF ~d.hit
  THEN [damage |-> 0, damageKind |-> "integer", isCritical |-> FALSE, accuracy |-> FALSE,
        statusEffects |-> <<>>, buffs |-> <<>>, debuffs |-> <<>>]
  ELSE
    LET isPhysical == sk.attackType = "physical"
        attack == IF isPhysical THEN attacker.currentPhysicalAttack
                  ELSE attacker.currentSpecialAttack
        defense == IF isPhysical THEN defender.currentPhysicalDefense
                   ELSE defender.currentSpecialDefense
        stabBonus == IF sk.elementalType = attackerType THEN 3 ELSE 2
        typeAdvantage == calculateElementalAdvantage(sk.elementalType, defenderType)
        number == damageNumber(attack, defense, sk.baseDamage, stabBonus, typeAdvantage,
                               d.crit, d.variance)
        damage == number.n
    IN  [damage |-> damage, damageKind |-> number.kind,
         isCritical |-> d.crit = 3, accuracy |-> TRUE,
         statusEffects |->
           IF hasStatus(sk)
           THEN <<[type |-> sk.statusEffect, duration |-> d.duration,
                   value |-> effectValueOf(sk.statusEffect, defender.currentHealth, damage),
                   applied |-> d.statusApplied]>>
           ELSE <<>>,
         buffs |->
           IF sk.buffType # NoAttr /\ sk.buffValue # 0
           THEN <<[attribute |-> sk.buffType, value |-> sk.buffValue, duration |-> 3,
                   applied |-> TRUE]>>
           ELSE <<>>,
         debuffs |->
           IF sk.debuffType # NoAttr /\ sk.debuffValue # 0
           THEN <<[attribute |-> sk.debuffType, value |-> sk.debuffValue, duration |-> 3,
                   applied |-> TRUE]>>
           ELSE <<>>]

\* ------------------------------------------------------ turn orchestrator
Rest(c) == calls[c].pc \in {"idle", "done"}

\* Actions a client can submit: the player's own action and, optionally,
\* an action naming an enemy participant as actor
PlayerSubmissions ==
  {NoAction}
    \cup [set : {TRUE}, targetId : TeamPids("enemy"), skillId : UserTemplates["U1"].equipped]
    \cup [set : {TRUE}, targetId : {"E1"}, skillId : SubmittableSkillIds]
EnemySubmissions == {NoAction, [set |-> TRUE, targetId |-> "P1", skillId |-> "claw"]}
Submissions ==
  {[P1 |-> a, E1 |-> e, E2 |-> NoAction] : a \in PlayerSubmissions, e \in EnemySubmissions}

\* The locals of a finished call go out of scope; what the caller receives
\* (action results, return value) stays
Returned(cl, pcNext) ==
  [cl EXCEPT !.pc = pcNext, !.mem = IdleCall.mem, !.actions = IdleCall.actions,
             !.stunned = {}, !.order = <<>>, !.idx = 0]

TurnError(msg) == [NoReturn EXCEPT !.status = "error", !.error = msg]

\* executeBattleTurn(battleId, actions), lines 18-42: a turn request enters the
\* engine, which loads the battle and its participants
ExecuteBattleTurn(c, acts) ==
  /\ Rest(c)
  /\ calls' = [calls EXCEPT ![c] =
       [IdleCall EXCEPT !.op = "turn", !.pc = "tick", !.actions = acts,
                        !.b0 = battle, !.mem = parts]]
  /\ UNCHANGED <<battle, parts, statusEffects, buffs, users, rewards, adminOps, probe>>

\* executeBattleTurn, lines 102-104: tick status effects, then buffs
TickEffects(c) ==
  /\ calls[c].pc = "tick"
  /\ LET db == processBuffs(processStatusEffects(Db(parts, statusEffects, buffs)))
     IN  /\ parts' = db.parts
         /\ statusEffects' = db.statusEffects
         /\ buffs' = db.buffs
  /\ calls' = [calls EXCEPT ![c].pc = "synth", ![c].stunned = stunnedBy(statusEffects)]
  /\ UNCHANGED <<battle, users, rewards, adminOps, probe>>

\* completeEnemyActions: the enemies that get a synthesized action are the
\* loaded (in-memory) living enemies without a submitted action
enemiesNeedingAction(cl) ==
  {e \in Pids : /\ Roster[e].teamId = "enemy"
                /\ Roster[e].participantType = "enemy"
                /\ cl.mem[e].currentHealth > 0
                /\ ~cl.actions[e].set}

\* generateEnemyAction: a skill of the enemy's loadout against a player
\* participant that is alive in the store
livingPlayers(ps) == {q \in TeamPids("player") : ps[q].currentHealth > 0}

generateEnemyAction(e, ps) ==
  [set : {TRUE}, targetId : livingPlayers(ps), skillId : TemplateOf(e).skills]

\* executeBattleTurn, lines 106-110: complete the enemy actions, order by speed
CompleteEnemyActions(c) ==
  /\ calls[c].pc = "synth"
  /\ LET cl == calls[c]
         needy == IF livingPlayers(parts) = {} THEN {} ELSE enemiesNeedingAction(cl)
     IN  \E choice \in [needy -> [set : {TRUE}, targetId : Pids, skillId : SkillIds]] :
           /\ \A e \in needy : choice[e] \in generateEnemyAction(e, parts)
           /\ calls' = [calls EXCEPT ![c] =
                [cl EXCEPT !.pc = "act",
                           !.actions = [p \in Pids |-> IF p \in needy THEN choice[p]
                                                      ELSE cl.actions[p]],
                           !.order = orderParticipantsBySpeed(cl.mem),
                           !.idx = 1]]
  /\ UNCHANGED <<battle, parts, statusEffects, buffs, users, rewards, adminOps, probe>>

\* One element of actionResults
\* (variant: a refused action leaves no result)
FizzleUnreported(msg) == NoResult

Fizzle(msg) == [set |-> TRUE, damage |-> 0, accuracy |-> FALSE, message |-> msg]
ResultOf(r) == [set |-> TRUE, damage |-> r.damage, accuracy |-> r.accuracy,
                message |-> IF r.accuracy THEN "hit" ELSE "missed"]

\* Move to the next participant of the speed order, or to the end of turn
Advance(cl) ==
  IF cl.idx >= Len(cl.order) THEN [cl EXCEPT !.pc = "sweep"]
  ELSE [cl EXCEPT !.idx = @ + 1]

RECURSIVE ApplyStatusEffects(_, _, _)
ApplyStatusEffects(db, pid, effects) ==
  IF effects = <<>> THEN db
  ELSE ApplyStatusEffects(applyStatusEffect(db, pid, Head(effects)), pid, Tail(effects))

RECURSIVE ApplyBuffs(_, _, _, _)
ApplyBuffs(db, pid, bs, sign) ==
  IF bs = <<>> THEN db
  ELSE ApplyBuffs(applyBuff(db, pid, [Head(bs) EXCEPT !.value = sign * @]),
                  pid, Tail(bs), sign)

\* The turn's return value
TurnReturn(finished, winnerTeam, turnNumber) ==
  [status |-> "ok", isFinished |-> finished, winnerTeam |-> winnerTeam,
   turnNumber |-> turnNumber, error |-> "none"]

AfterTurn(cl, ret) ==
  Returned([cl EXCEPT !.ret = ret], "done")

\* executeBattleTurn, lines 249-347: the target's team is wholly defeated
teamDefeated(ps, team) ==
  IF team = "enemy" THEN enemyDefeated(ps)
  ELSE IF team = "player" THEN playerDefeated(ps) ELSE FALSE

\* (variant: the defeat of the team is not looked at after the damage)
earlyFinishNever(ps, target) == FALSE

earlyFinish(ps, target) ==
  ps[target].currentHealth <= 0 /\ teamDefeated(ps, Roster[target].teamId)

\* executeBattleTurn, lines 267-278 and 386-394: currentTurn: { increment: 1 }
\* (variant: the counter is left as it is)
keepTurn(b) == b

incrementTurn(b) == [b EXCEPT !.currentTurn = @ + 1]

\* executeBattleTurn, lines 411-425: the sweep writes the battle row only when
\* a team is wholly defeated
\* (variant: the sweep always writes the flag it computed)
sweepOverwrite(b, finished, winnerId) ==
  [b EXCEPT !.isFinished = finished, !.winnerId = winnerId]

sweepUpdate(b, finished, winnerId) ==
  IF finished THEN [b EXCEPT !.isFinished = TRUE, !.winnerId = winnerId] ELSE b

\* executeBattleTurn, lines 203-383: resolve one action whose checks passed
ResolveAction(c, p, a, d) ==
  LET cl == calls[c]
      t == a.targetId
      r == calculateDamage(cl.mem[p], cl.mem[t], Skills[a.skillId],
                           getParticipantElementalType(p),
                           getParticipantElementalType(t), d)
      withResult == [cl EXCEPT !.results[p] = ResultOf(r)]
      hurt == [parts EXCEPT ![t].currentHealth = @ - r.damage]
      winnerTeam == OtherTeam(Roster[t].teamId)
      db1 == ApplyStatusEffects(Db(hurt, statusEffects, buffs), t, r.statusEffects)
      db2 == ApplyBuffs(db1, p, r.buffs, 1)
      db3 == ApplyBuffs(db2, t, r.debuffs, -1)
  IN  IF ~r.accuracy
      THEN /\ calls' = [calls EXCEPT ![c] = Advance(withResult)]
           /\ UNCHANGED <<battle, parts, statusEffects, buffs>>
      ELSE IF earlyFinish(hurt, t)
      THEN /\ parts' = hurt
           /\ battle' = [incrementTurn(battle) EXCEPT
                           !.isFinished = TRUE,
                           !.winnerId = getWinnerTeamRepresentativeId(hurt, winnerTeam)]
           /\ calls' = [calls EXCEPT ![c] =
                AfterTurn(withResult, TurnReturn(TRUE, winnerTeam, battle'.currentTurn))]
           /\ UNCHANGED <<statusEffects, buffs>>
      ELSE /\ parts' = db3.parts
           /\ statusEffects' = db3.statusEffects
           /\ buffs' = db3.buffs
           /\ calls' = [calls EXCEPT ![c] = Advance(withResult)]
           /\ UNCHANGED battle

\* executeBattleTurn, lines 113-384: one iteration of the loop over the
\* speed-ordered participants
ActStep(c) ==
  /\ calls[c].pc = "act"
  /\ LET cl == calls[c]
         p == cl.order[cl.idx]
         a == cl.actions[p]
         fizzle(msg) ==
           /\ calls' = [calls EXCEPT ![c] = Advance([cl EXCEPT !.results[p] = Fizzle(msg)])]
           /\ UNCHANGED <<battle, parts, statusEffects, buffs>>
     IN  IF cl.mem[p].currentHealth <= 0 \/ ~a.set
         THEN /\ calls' = [calls EXCEPT ![c] = Advance(cl)]
              /\ UNCHANGED <<battle, parts, statusEffects, buffs>>
         ELSE IF cl.mem[a.targetId].currentHealth <= 0 THEN fizzle("target already defeated")
         ELSE IF p \in cl.stunned THEN fizzle("cannot act")
         ELSE IF a.skillId \notin SkillIds THEN fizzle("skill not found")
         ELSE IF /\ Roster[p].participantType = "user"
                 /\ Roster[p].userId # Null
                 /\ a.skillId \notin UserTemplates[Roster[p].userId].equipped
         THEN fizzle("skill not equipped")
         ELSE \E d \in DrawsFor(Skills[a.skillId]) : ResolveAction(c, p, a, d)
  /\ UNCHANGED <<users, rewards, adminOps, probe>>

\* executeBattleTurn, lines 386-449: advance the turn counter, then finish
\* the battle if a team is wholly defeated
EndOfTurn(c) ==
  /\ calls[c].pc = "sweep"
  /\ LET finished == playerDefeated(parts) \/ enemyDefeated(parts)
         winnerTeam == IF ~finished THEN Null
                       ELSE IF playerDefeated(parts) THEN "enemy" ELSE "player"
         winnerId == IF finished THEN getWinnerTeamRepresentativeId(parts, winnerTeam)
                     ELSE Null
     IN  /\ battle' = sweepUpdate(incrementTurn(battle), finished, winnerId)
         /\ calls' = [calls EXCEPT ![c] =
              AfterTurn(calls[c], TurnReturn(finished, winnerTeam, battle'.currentTurn))]
  /\ UNCHANGED <<parts, statusEffects, buffs, users, rewards, adminOps, probe>>

\* ------------------------------------------------ battle state operations
\* checkBattleState(battleId)
checkBattleStateResult(b, ps) ==
  IF b.isFinished THEN [battle |-> b, isActive |-> FALSE, winnerTeam |-> Null]
  ELSE IF playerDefeated(ps) \/ enemyDefeated(ps)
  THEN [battle |-> [b EXCEPT !.isFinished = TRUE, !.winnerId = Null],
        isActive |-> FALSE,
        winnerTeam |-> IF playerDefeated(ps) THEN "enemy" ELSE "player"]
  ELSE [battle |-> b, isActive |-> TRUE, winnerTeam |-> Null]

CheckBattleState ==
  /\ LET r == checkBattleStateResult(battle, parts)
     IN  battle' = r.battle
  /\ UNCHANGED <<parts, statusEffects, buffs, users, rewards, calls, adminOps, probe>>

\* initializeBattle(battleId): restart at turn 1, health 100, no effects
InitializeHealth == 100

InitializeBattle ==
  /\ adminOps < MaxAdminOps
  /\ battle' = [currentTurn |-> 1, isFinished |-> FALSE, winnerId |-> Null]
  /\ parts' = [p \in Pids |-> [parts[p] EXCEPT !.currentHealth = InitializeHealth]]
  /\ statusEffects' = [p \in Pids |-> [t \in StatusTypes |-> NoEffect]]
  /\ buffs' = [p \in Pids |-> [a \in Attrs |-> NoBuff]]
  /\ adminOps' = adminOps + 1
  /\ UNCHANGED <<users, rewards, calls, probe>>

\* finalizeBattle(battleId, winnerTeam)
FinalizeBattle(winnerTeam) ==
  /\ adminOps < MaxAdminOps
  /\ LET r == checkBattleStateResult(battle, parts)
         b == IF winnerTeam = Null THEN r.battle ELSE battle
     IN  battle' = [b EXCEPT !.isFinished = TRUE, !.winnerId = Null]
  /\ adminOps' = adminOps + 1
  /\ UNCHANGED <<parts, statusEffects, buffs, users, rewards, calls, probe>>

\* ------------------------------------------------------ reward calculator
RewardError(msg) == [NoRewardReturn EXCEPT !.status = "error", !.error = msg]

RewardDone(cl, rret) ==
  [cl EXCEPT !.pc = "done", !.rret = rret, !.experienceGained = 0, !.levelUp = NoLevelUp]

\* hasReceivedReward: a BattleReward row of the user for this battle exists
\* (variant: the ledger is not consulted)
hasReceivedRewardNever(u) == FALSE

hasReceivedReward(u) == u \in rewards

\* processBattleRewards(userId, battleId), lines 48-66: a reward request enters
\* the service, which first looks for an earlier reward
ProcessBattleRewards(c, u) ==
  /\ Rest(c)
  /\ calls' = [calls EXCEPT ![c] =
       IF hasReceivedReward(u)
       THEN RewardDone([IdleCall EXCEPT !.op = "reward", !.user = u],
                       RewardError("already rewarded"))
       ELSE [IdleCall EXCEPT !.op = "reward", !.user = u, !.pc = "r_battle"]]
  /\ UNCHANGED <<battle, parts, statusEffects, buffs, users, rewards, adminOps, probe>>

\* processBattleRewards, lines 97-120: the team the rewards are claimed for
humanParticipants == {p \in Pids : Roster[p].participantType = "user"}
participantsOf(u) == {p \in Pids : Roster[p].userId = u}

playerTeamOf(u) ==
  IF participantsOf(u) # {} THEN Roster[FirstIn(LoadOrder, participantsOf(u))].teamId
  ELSE IF humanParticipants # {} THEN Roster[FirstIn(LoadOrder, humanParticipants)].teamId
  ELSE Null

\* processBattleRewards, lines 122-145: did that team win
playerTeamWon(b, ps, playerTeam) ==
  IF b.winnerId # Null THEN TeamOfId(b.winnerId) = playerTeam
  ELSE \A p \in Pids : Roster[p].teamId = playerTeam \/ ps[p].currentHealth <= 0

\* processBattleRewards, lines 92-150: the reason the claim is refused, or "none"
rewardRefusal(b, ps, u) ==
  IF ~b.isFinished THEN "battle not finished"
  ELSE IF participantsOf(u) = {} /\ Cardinality(humanParticipants) # 1
  THEN "user did not take part"
  ELSE IF playerTeamOf(u) = Null THEN "no player team"
  ELSE IF ~playerTeamWon(b, ps, playerTeamOf(u)) THEN "battle not won"
  ELSE "none"

RewardValidate(c) ==
  /\ calls[c].pc = "r_battle"
  /\ LET why == rewardRefusal(battle, parts, calls[c].user)
     IN  calls' = [calls EXCEPT ![c] =
           IF why # "none" THEN RewardDone(calls[c], RewardError(why))
           ELSE [calls[c] EXCEPT !.pc = "r_user"]]
  /\ UNCHANGED <<battle, parts, statusEffects, buffs, users, rewards, adminOps, probe>>

\* processBattleRewards, lines 152-181: read the user, compute the reward
enemyLevels(playerTeam) ==
  [p \in {q \in Pids : Roster[q].teamId # playerTeam /\ Roster[q].enemyId # Null}
     |-> enemyLevelOf(EnemyTemplates[Roster[p].enemyId])]

difficultyOf(levels) ==
  IF Cardinality(DOMAIN levels) <= 1 THEN "easy"
  ELSE IF Cardinality(DOMAIN levels) <= 2 THEN "normal" ELSE "hard"

RewardCompute(c) ==
  /\ calls[c].pc = "r_user"
  /\ LET u == calls[c].user
         levels == enemyLevels(playerTeamOf(u))
         xp == calculateBattleExperience(levels, difficultyOf(levels))
     IN  calls' = [calls EXCEPT ![c].pc = "r_update",
                                ![c].experienceGained = xp,
                                ![c].levelUp = checkLevelUp(users[u].level,
                                                            users[u].experience, xp)]
  /\ UNCHANGED <<battle, parts, statusEffects, buffs, users, rewards, adminOps, probe>>

\* BattleRewardsRepository.updateUserExperience
updateUserExperience(row, level, experience, attributePointsToAdd) ==
  [level |-> level, experience |-> experience,
   attributePointsToDistribute |-> row.attributePointsToDistribute + attributePointsToAdd]

RewardUpdateUser(c) ==
  /\ calls[c].pc = "r_update"
  /\ LET u == calls[c].user
         lu == calls[c].levelUp
     IN  users' = [users EXCEPT ![u] =
           updateUserExperience(users[u], lu.newLevel, lu.newExp, lu.newAttributePoints)]
  /\ calls' = [calls EXCEPT ![c].pc = "r_register"]
  /\ UNCHANGED <<battle, parts, statusEffects, buffs, rewards, adminOps, probe>>

\* BattleRewardsRepository.registerRewardReceived: the insert fails on the
\* unique index (userId, battleId)
RewardRegister(c) ==
  /\ calls[c].pc = "r_register"
  /\ LET u == calls[c].user
         lu == calls[c].levelUp
     IN  IF u \in rewards
         THEN /\ calls' = [calls EXCEPT ![c] =
                   RewardDone(calls[c], RewardError("unique constraint"))]
              /\ UNCHANGED rewards
         ELSE /\ rewards' = rewards \cup {u}
              /\ calls' = [calls EXCEPT ![c] =
                   RewardDone(calls[c],
                     [status |-> "ok", experience |-> calls[c].experienceGained,
                      levelUp |-> lu.leveledUp,
                      attributePointsGained |-> lu.newAttributePoints,
                      error |-> "none"])]
  /\ UNCHANGED <<battle, parts, statusEffects, buffs, users, adminOps, probe>>

\* processBattleRewards, lines 192-208: the insert of the ledger row rejects
\* for a reason other than the unique index (the store is unreachable, the
\* request is cut off); the catch block logs and rethrows, and nothing undoes
\* the update of the user row that was already written
\* At most MaxStoreFailures inserts fail in a run.
MaxStoreFailures == 1

RewardRegisterFails(c) ==
  /\ calls[c].pc = "r_register"
  /\ probe.calls < MaxStoreFailures
  /\ calls' = [calls EXCEPT ![c] = RewardDone(calls[c], RewardError("store failure"))]
  /\ probe' = [op |-> "storeFailure", calls |-> probe.calls + 1]
  /\ UNCHANGED <<battle, parts, statusEffects, buffs, users, rewards, adminOps>>

\* --------------------------------------------------------- specifications
Quiescent == \A c \in Calls : Rest(c)

StepOf(c) ==
  \/ TickEffects(c)
  \/ CompleteEnemyActions(c)
  \/ ActStep(c)
  \/ EndOfTurn(c)
  \/ RewardValidate(c)
  \/ RewardCompute(c)
  \/ RewardUpdateUser(c)
  \/ RewardRegister(c)

\* One request at a time; turn requests are accepted below turn maxTurn, and
\* initializeBattle restarts a battle that has finished
NextUpTo(maxTurn) ==
  \/ \E acts \in Submissions : battle.currentTurn < maxTurn /\ ExecuteBattleTurn(1, acts)
  \/ \E u \in Users : ProcessBattleRewards(1, u)
  \/ Quiescent /\ CheckBattleState
  \/ Quiescent /\ battle.isFinished /\ InitializeBattle
  \/ \E wt \in Teams \cup {Null} : Quiescent /\ FinalizeBattle(wt)
  \/ StepOf(1)

Next == NextUpTo(MaxTurn)
Spec == Init /\ [][Next]_vars

NextDeep == NextUpTo(MaxTurnDeep)
SpecDeep == Init /\ [][NextDeep]_vars

\* One request at a time, with a store whose ledger insert can reject
NextFail ==
  \/ NextUpTo(MaxTurn)
  \/ RewardRegisterFails(1)

SpecFail == Init /\ [][NextFail]_vars

\* Two requests in flight: each await of a handler is a step, and the steps
\* of the two requests interleave
ConcSubmissions ==
  {[P1 |-> [set |-> TRUE, targetId |-> "E1", skillId |-> "strike"],
    E1 |-> NoAction, E2 |-> NoAction],
   [P1 |-> [set |-> TRUE, targetId |-> "E2", skillId |-> "venom"],
    E1 |-> NoAction, E2 |-> NoAction]}

NextConc ==
  \/ \E c \in Calls, acts \in ConcSubmissions :
       battle.currentTurn < MaxTurnConc /\ ExecuteBattleTurn(c, acts)
  \/ \E c \in Calls, u \in Users : ProcessBattleRewards(c, u)
  \/ \E c \in Calls : StepOf(c)

SpecConc == Init /\ [][NextConc]_vars

\* A long battle: the battle created by createRandomBattle and restarted by
\* initializeBattle (turn 1, every participant at health InitializeHealth,
\* no effects), played until turn MaxTurnLong by a player who passes or
\* strikes while the enemies act on their own.
MaxTurnLong == 6

LongSubmissions ==
  {[P1 |-> a, E1 |-> NoAction, E2 |-> NoAction] :
     a \in {NoAction, [set |-> TRUE, targetId |-> "E2", skillId |-> "strike"]}}

InitLong ==
  /\ battle = [currentTurn |-> 1, isFinished |-> FALSE, winnerId |-> Null]
  /\ parts = [p \in Pids |-> [InitialParts[p] EXCEPT !.currentHealth = InitializeHealth]]
  /\ statusEffects = [p \in Pids |-> [t \in StatusTypes |-> NoEffect]]
  /\ buffs = [p \in Pids |-> [a \in Attrs |-> NoBuff]]
  /\ users = InitialUsers
  /\ rewards = {}
  /\ calls = [c \in Calls |-> IdleCall]
  /\ adminOps = 0
  /\ probe = NoProbe

NextLong ==
  \/ \E acts \in LongSubmissions :
       battle.currentTurn < MaxTurnLong /\ ExecuteBattleTurn(1, acts)
  \/ TickEffects(1)
  \/ CompleteEnemyActions(1)
  \/ ActStep(1)
  \/ EndOfTurn(1)

SpecLong == InitLong /\ [][NextLong]_vars

\* ------------------------------------------- the effect lifecycle alone
\* The effect lifecycle manager driven call by call on participant P1:
\* applyStatusEffect, applyBuff (buffs, and debuffs as negated values) and the
\* start-of-turn tick, from a battle whose player has physical attack
\* 1 .. MaxPhysicalAttack.  At most MaxEffectCalls calls are made.
MaxEffectCalls == 7
MaxPhysicalAttack == 3

EffectAttrs == {"physicalAttack", "speed"}
BuffInputs ==
  [attribute : EffectAttrs, value : {-1, 1}, duration : {3}, applied : {TRUE}]
BurnInputs == [type : {"burn"}, duration : 1..2, value : {1}, applied : BOOLEAN]

\* The record of a call: what was called and returned, and the physical
\* attack P1 has apart from burn (the initial value and the changes made by
\* buffs and their expiry)
EffectProbe(op, attribute, ret, db) ==
  [op |-> op, calls |-> probe.calls + 1, attribute |-> attribute, ret |-> ret,
   unburnt |-> IF op = "applyStatusEffect" THEN probe.unburnt
               ELSE IF op = "applyBuff"
               THEN probe.unburnt + db.parts["P1"].currentPhysicalAttack
                                  - parts["P1"].currentPhysicalAttack
               ELSE probe.unburnt - expiryDelta(buffs["P1"]["physicalAttack"])]

InitEffects ==
  /\ battle = InitialBattle
  /\ \E a \in 1..MaxPhysicalAttack :
       /\ parts = [InitialParts EXCEPT !["P1"].currentPhysicalAttack = a]
       /\ probe = [op |-> "none", calls |-> 0, attribute |-> NoAttr, ret |-> FALSE,
                   unburnt |-> a]
  /\ statusEffects = [p \in Pids |-> [t \in StatusTypes |-> NoEffect]]
  /\ buffs = [p \in Pids |-> [a \in Attrs |-> NoBuff]]
  /\ users = InitialUsers
  /\ rewards = {}
  /\ calls = [c \in Calls |-> IdleCall]
  /\ adminOps = 0

EffectCall(op, attribute, ret, db) ==
  /\ parts' = db.parts
  /\ statusEffects' = db.statusEffects
  /\ buffs' = db.buffs
  /\ probe' = EffectProbe(op, attribute, ret, db)
  /\ UNCHANGED <<battle, users, rewards, calls, adminOps>>

ApplyBuffCall(buff) ==
  /\ probe.calls < MaxEffectCalls
  /\ EffectCall("applyBuff", buff.attribute, applyBuffReturns(buff),
                applyBuff(Db(parts, statusEffects, buffs), "P1", buff))

ApplyStatusEffectCall(effect) ==
  /\ probe.calls < MaxEffectCalls
  /\ EffectCall("applyStatusEffect", NoAttr,
                statusEffectAccepted(Db(parts, statusEffects, buffs), "P1", effect),
                applyStatusEffect(Db(parts, statusEffects, buffs), "P1", effect))

\* executeBattleTurn, lines 102-104: processStatusEffects, then processBuffs
TickCall ==
  /\ probe.calls < MaxEffectCalls
  /\ EffectCall("tick", NoAttr, TRUE,
                processBuffs(processStatusEffects(Db(parts, statusEffects, buffs))))

NextEffects ==
  \/ \E buff \in BuffInputs : ApplyBuffCall(buff)
  \/ \E effect \in BurnInputs : ApplyStatusEffectCall(effect)
  \/ TickCall

SpecEffects == InitEffects /\ [][NextEffects]_vars

\* ------------------------------------------- the damage calculator alone
\* calculateElementalAdvantage called on every pair of type names, and
\* calculateDamage called on participants whose attack and defense stats range
\* over -MaxStatLoss .. MaxStat (debuffs and expiring buffs are subtracted
\* from a stat without a lower limit), with skills of base power
\* 0 .. MaxBaseDamage, with and without the same-type bonus.
MaxStat == 3
MaxStatLoss == 2
MaxBaseDamage == 2

\* The ElementalType enumeration and the other type names of the tables
ElementalTypes ==
  {"fire", "water", "earth", "air", "light", "dark", "nature", "electric", "ice",
   "psychic", "ghost", "steel", "poison", "flying", "rock",
   "bug", "fighting", "dragon", "fairy", "normal"}

StatRange == (0 - MaxStatLoss)..MaxStat

\* <<skill type, defender type>>: the immunities, and one pair for each of the
\* other multipliers (same type, advantage, disadvantage, neutral)
DamageTypePairs ==
  {<<"electric", "earth">>, <<"fighting", "ghost">>, <<"normal", "ghost">>,
   <<"psychic", "dark">>, <<"earth", "flying">>,
   <<"fire", "fire">>, <<"fire", "nature">>, <<"fire", "water">>, <<"fire", "light">>}

AdvantageArgs == [attackerType : ElementalTypes, defenderType : ElementalTypes]

DamageArgs ==
  [types : DamageTypePairs, stab : BOOLEAN, attackType : {"physical", "special"},
   attack : StatRange, defense : StatRange, baseDamage : 0..MaxBaseDamage,
   accuracy : {90, 100}]

\* The Skill row and the two participants of a calculateDamage call; the stat
\* the skill's attack category does not use is one higher than the one it uses
SkillOf(args) ==
  [elementalType |-> args.types[1], attackType |-> args.attackType,
   baseDamage |-> args.baseDamage, accuracy |-> args.accuracy,
   statusEffect |-> NoStatus, statusEffectChance |-> 0, statusEffectDuration |-> 0,
   buffType |-> NoAttr, buffValue |-> 0, debuffType |-> NoAttr, debuffValue |-> 0]

AttackerOf(args) ==
  IF args.attackType = "physical"
  THEN [NoStats EXCEPT !.currentHealth = 1, !.currentPhysicalAttack = args.attack,
                       !.currentSpecialAttack = args.attack + 1]
  ELSE [NoStats EXCEPT !.currentHealth = 1, !.currentSpecialAttack = args.attack,
                       !.currentPhysicalAttack = args.attack + 1]

DefenderOf(args) ==
  IF args.attackType = "physical"
  THEN [NoStats EXCEPT !.currentHealth = 1, !.currentPhysicalDefense = args.defense,
                       !.currentSpecialDefense = args.defense + 1]
  ELSE [NoStats EXCEPT !.currentHealth = 1, !.currentSpecialDefense = args.defense,
                       !.currentPhysicalDefense = args.defense + 1]

AttackerTypeOf(args) ==
  IF args.stab THEN args.types[1]
  ELSE IF args.types[1] = "normal" THEN "fire" ELSE "normal"

NoDraw ==
  [hit |-> FALSE, crit |-> 2, variance |-> 85, statusApplied |-> FALSE, duration |-> 1]

NoDamageResult ==
  [damage |-> 0, damageKind |-> "integer", isCritical |-> FALSE, accuracy |-> FALSE,
   statusEffects |-> <<>>, buffs |-> <<>>, debuffs |-> <<>>]

InitDamage ==
  /\ battle = InitialBattle
  /\ parts = InitialParts
  /\ statusEffects = [p \in Pids |-> [t \in StatusTypes |-> NoEffect]]
  /\ buffs = [p \in Pids |-> [a \in Attrs |-> NoBuff]]
  /\ users = InitialUsers
  /\ rewards = {}
  /\ calls = [c \in Calls |-> IdleCall]
  /\ adminOps = 0
  /\ \/ \E args \in AdvantageArgs :
          probe = [op |-> "calculateElementalAdvantage", done |-> FALSE,
                   args |-> args, result |-> 0]
     \/ \E args \in DamageArgs :
          probe = [op |-> "calculateDamage", done |-> FALSE, args |-> args,
                   draw |-> NoDraw, result |-> NoDamageResult]

CalculateElementalAdvantageCall ==
  /\ probe.op = "calculateElementalAdvantage" /\ ~probe.done
  /\ probe' = [probe EXCEPT
                  !.done = TRUE,
                  !.result = calculateElementalAdvantage(probe.args.attackerType,
                                                         probe.args.defenderType)]
  /\ UNCHANGED <<battle, parts, statusEffects, buffs, users, rewards, calls, adminOps>>

CalculateDamageCall ==
  /\ probe.op = "calculateDamage" /\ ~probe.done
  /\ \E d \in DrawsFor(SkillOf(probe.args)) :
       probe' = [probe EXCEPT
                   !.done = TRUE,
                   !.draw = d,
                   !.result = calculateDamage(AttackerOf(probe.args), DefenderOf(probe.args),
                                              SkillOf(probe.args), AttackerTypeOf(probe.args),
                                              probe.args.types[2], d)]
  /\ UNCHANGED <<battle, parts, statusEffects, buffs, users, rewards, calls, adminOps>>

NextDamage ==
  \/ CalculateElementalAdvantageCall
  \/ CalculateDamageCall

SpecDamage == InitDamage /\ [][NextDamage]_vars

\* ------------------------------------------------- the level-up rule alone
\* checkLevelUp called with a level in 1 .. MaxLevel, a current experience in
\* 0 .. MaxExp and a gained experience in 0 .. MaxGained
MaxLevel == 4
MaxExp == 30
MaxGained == 450

LevelUpArgs == [level : 1..MaxLevel, exp : 0..MaxExp, gained : 0..MaxGained]

InitLevel ==
  /\ battle = InitialBattle
  /\ parts = InitialParts
  /\ statusEffects = [p \in Pids |-> [t \in StatusTypes |-> NoEffect]]
  /\ buffs = [p \in Pids |-> [a \in Attrs |-> NoBuff]]
  /\ users = InitialUsers
  /\ rewards = {}
  /\ calls = [c \in Calls |-> IdleCall]
  /\ adminOps = 0
  /\ \E args \in LevelUpArgs :
       probe = [op |-> "checkLevelUp", done |-> FALSE, args |-> args, result |-> NoLevelUp]

CheckLevelUpCall ==
  /\ probe.op = "checkLevelUp" /\ ~probe.done
  /\ probe' = [probe EXCEPT
                  !.done = TRUE,
                  !.result = checkLevelUp(probe.args.level, probe.args.exp,
                                          probe.args.gained)]
  /\ UNCHANGED <<battle, parts, statusEffects, buffs, users, rewards, calls, adminOps>>

NextLevel == CheckLevelUpCall

SpecLevel == InitLevel /\ [][NextLevel]_vars

\* ------------------------------------------ the enemy AI difficulty level
\* completeEnemyActions called for one enemy participant as createRandomBattle
\* writes it (participantType enemy, userId null, a non-boss Enemy row of any
\* rarity), in the battle of a player of level 1 .. MaxPlayerLevel.
MaxPlayerLevel == 8

Rarities == {"common", "uncommon", "rare", "epic", "legendary"}
EnemyHealths == {1, 50, 300, 600}

rarityDifficulty == [common |-> 1, uncommon |-> 2, rare |-> 3, epic |-> 4, legendary |-> 5]

\* determineDifficultyLevel(enemyId, playerId), for rows that exist
determineDifficultyLevel(enemy, player) ==
  LET base == IF enemy.rarity \in DOMAIN rarityDifficulty
              THEN rarityDifficulty[enemy.rarity] ELSE 3
      levelDifference == player.level - FloorDiv(enemy.health, 50)
      adjusted == IF levelDifference > 5 THEN base + 1
                  ELSE IF levelDifference < -5 THEN base - 1
                  ELSE base
      floored == IF enemy.isBoss /\ adjusted < 4 THEN 4 ELSE adjusted
  IN  Max(1, Min(5, floored))

\* completeEnemyActions, lines 481-490: the level handed to generateEnemyAction
difficultyLevelPassed(participant, enemy, player) ==
  IF participant.userId # Null THEN determineDifficultyLevel(enemy, player) ELSE 3

DifficultyArgs ==
  [participant : {[participantType |-> "enemy", userId |-> Null]},
   enemy : [rarity : Rarities, health : EnemyHealths, isBoss : {FALSE}],
   player : [level : 1..MaxPlayerLevel]]

InitDifficulty ==
  /\ battle = InitialBattle
  /\ parts = InitialParts
  /\ statusEffects = [p \in Pids |-> [t \in StatusTypes |-> NoEffect]]
  /\ buffs = [p \in Pids |-> [a \in Attrs |-> NoBuff]]
  /\ users = InitialUsers
  /\ rewards = {}
  /\ calls = [c \in Calls |-> IdleCall]
  /\ adminOps = 0
  /\ \E args \in DifficultyArgs :
       probe = [op |-> "completeEnemyActions", done |-> FALSE, args |-> args,
                difficultyLevel |-> 0]

CompleteEnemyActionsCall ==
  /\ probe.op = "completeEnemyActions" /\ ~probe.done
  /\ probe' = [probe EXCEPT
                  !.done = TRUE,
                  !.difficultyLevel =
                     difficultyLevelPassed(probe.args.participant, probe.args.enemy,
                                           probe.args.player)]
  /\ UNCHANGED <<battle, parts, statusEffects, buffs, users, rewards, calls, adminOps>>

NextDifficulty == CompleteEnemyActionsCall

SpecDifficulty == InitDifficulty /\ [][NextDifficulty]_vars

\* ------------------------------------------------------------- properties
\* The user row after exactly one reward for this battle
BattleXp(u) ==
  LET levels == enemyLevels(playerTeamOf(u))
  IN  calculateBattleExperience(levels, difficultyOf(levels))

RewardedOnce(u) ==
  LET lu == checkLevelUp(InitialUsers[u].level, InitialUsers[u].experience, BattleXp(u))
  IN  updateUserExperience(InitialUsers[u], lu.newLevel, lu.newExp, lu.newAttributePoints)

\* The winning team: the team of the recorded winner, else the team the
\* engine's own rule names (a defeated player team loses)
winnerTeamOf(b, ps) ==
  IF b.winnerId # Null THEN TeamOfId(b.winnerId)
  ELSE IF playerDefeated(ps) THEN "enemy"
  ELSE IF enemyDefeated(ps) THEN "player" ELSE Null

\* Call c enters, takes a step of, or returns from an operation in this step
Enters(c, op) == Rest(c) /\ calls'[c] # calls[c] /\ calls'[c].op = op
Returns(c, op) == ~Rest(c) /\ calls[c].op = op /\ calls'[c].pc = "done"

\* C1: the stored currentHealth of every participant is never negative
C1HealthNeverNegative == \A p \in Pids : parts[p].currentHealth >= 0

\* C2: a turn requested on a battle whose finished flag is set is rejected
\* with an error and changes neither the turn counter nor any participant's
\* health, stats, status effects or buffs
C2FinishedTurnRejected ==
  [][\A c \in Calls :
       (Enters(c, "turn") /\ battle.isFinished)
         => /\ calls'[c].pc = "done"
            /\ calls'[c].ret.status = "error"
            /\ UNCHANGED <<battle, parts, statusEffects, buffs>>]_vars

C4FinishedHasWinner == battle.isFinished => battle.winnerId # Null

\* C5: when an applied action brings its target to health <= 0 and the whole
\* team of the target is then at health <= 0, the call marks the battle
\* finished with the other team as winner, returns finished with that team,
\* and resolves no action of a participant later in the speed order
C5EarlyFinish ==
  [][\A c \in Calls :
       LET cl == calls[c]
           p == cl.order[cl.idx]
           t == cl.actions[p].targetId
           team == Roster[t].teamId
       IN  (/\ cl.pc = "act"
            /\ calls'[c] # cl
            /\ cl.actions[p].set
            /\ calls'[c].results[p].set /\ calls'[c].results[p].accuracy
            /\ parts'[t].currentHealth <= 0
            /\ \A q \in TeamPids(team) : parts'[q].currentHealth <= 0)
             => /\ battle'.isFinished
                /\ TeamOfId(battle'.winnerId) = OtherTeam(team)
                /\ calls'[c].pc = "done"
                /\ calls'[c].ret.status = "ok"
                /\ calls'[c].ret.isFinished
                /\ calls'[c].ret.winnerTeam = OtherTeam(team)
                /\ \A j \in (cl.idx + 1)..Len(cl.order) :
                     ~calls'[c].results[cl.order[j]].set]_vars

C5Witness ==
  /\ calls[1].op = "turn" /\ calls[1].pc = "done"
  /\ calls[1].ret.isFinished /\ calls[1].ret.winnerTeam = "player"
  /\ battle.isFinished /\ TeamOfId(battle.winnerId) = "player"
  /\ calls[1].results["P1"].accuracy
  /\ parts["E1"].currentHealth <= 0
  /\ parts["E1"].currentHealth + calls[1].results["P1"].damage > 0
  /\ enemyDefeated(parts)
  /\ ~calls[1].results["E1"].set

\* C6: a turn call that returns a result has increased the stored turn
\* counter by exactly one: no step of the call before the returning one
\* changes the counter, the returning step adds one, and the returned turn
\* number is the stored one
C6TurnAdvancesByOne ==
  [][\A c \in Calls :
       (~Rest(c) /\ calls[c].op = "turn" /\ calls'[c] # calls[c])
         => IF calls'[c].pc = "done"
            THEN /\ battle'.currentTurn = battle.currentTurn + 1
                 /\ battle'.currentTurn = calls[c].b0.currentTurn + 1
                 /\ calls'[c].ret.status = "ok"
                 /\ calls'[c].ret.turnNumber = battle'.currentTurn
            ELSE battle'.currentTurn = battle.currentTurn]_vars

C6Witness ==
  /\ calls[1].op = "turn" /\ calls[1].pc = "done"
  /\ calls[1].ret.status = "ok" /\ ~calls[1].ret.isFinished
  /\ calls[1].ret.turnNumber = MaxTurn
  /\ battle.currentTurn = MaxTurn

\* C7: of two turn calls that loaded the same turn of the battle, one fails
\* with a conflict
C7TurnsSerialized ==
  \A c1, c2 \in Calls :
    (/\ c1 # c2
     /\ calls[c1].op = "turn" /\ calls[c1].pc = "done"
     /\ calls[c2].op = "turn" /\ calls[c2].pc = "done"
     /\ calls[c1].b0.currentTurn = calls[c2].b0.currentTurn)
      => calls[c1].ret.status = "error" \/ calls[c2].ret.status = "error"

\* C8: of the reward claims made one after the other for a user, the one made
\* after a player victory with no reward row yet succeeds, a claim made when
\* the row exists is rejected as already rewarded and changes nothing, and
\* the user's level, experience and attribute points carry one reward
C8ClaimedOnce ==
  /\ [](\A u \in Users :
          /\ users[u] \in {InitialUsers[u], RewardedOnce(u)}
          /\ u \in rewards => users[u] = RewardedOnce(u))
  /\ [][\A c \in Calls :
          /\ (Enters(c, "reward") /\ calls'[c].user \in rewards)
               => /\ calls'[c].pc = "done"
                  /\ calls'[c].rret.status = "error"
                  /\ calls'[c].rret.error = "already rewarded"
                  /\ UNCHANGED <<users, rewards>>
          /\ (/\ Returns(c, "reward")
              /\ calls[c].user \notin rewards
              /\ battle.isFinished
              /\ battle.winnerId # Null
              /\ TeamOfId(battle.winnerId) = playerTeamOf(calls[c].user))
               => /\ calls'[c].rret.status = "ok"
                  /\ calls[c].user \in rewards'
                  /\ users'[calls[c].user] = RewardedOnce(calls[c].user)]_vars

C8Witness ==
  /\ calls[1].op = "reward" /\ calls[1].pc = "done"
  /\ calls[1].user = "U1"
  /\ calls[1].rret.error = "already rewarded"
  /\ "U1" \in rewards
  /\ users["U1"] = RewardedOnce("U1")
  /\ users["U1"] # InitialUsers["U1"]
  /\ TeamOfId(battle.winnerId) = "player"

\* C9: a reward call changes the user or writes a reward row only when the
\* battle is finished and the user's team is the winner; a call on an
\* unfinished battle or on a battle won by the enemy team is rejected
C9RewardOnlyForWinner ==
  [][\A c \in Calls :
       /\ (calls[c].op = "reward" /\ (users' # users \/ rewards' # rewards))
            => /\ battle.isFinished
               /\ winnerTeamOf(battle, parts) = playerTeamOf(calls[c].user)
       /\ (/\ Returns(c, "reward")
           /\ \/ ~battle.isFinished
              \/ winnerTeamOf(battle, parts) # playerTeamOf(calls[c].user)
           /\ calls[c].pc = "r_battle")
            => calls'[c].rret.status = "error"]_vars

\* C10: whatever the interleaving of two reward calls, there is at most one
\* reward row per user and the user's level, experience and attribute points
\* carry exactly one reward
C10SingleReward ==
  \A u \in Users :
    /\ users[u] \in {InitialUsers[u], RewardedOnce(u)}
    /\ (\A c \in Calls : calls[c].op = "reward" /\ calls[c].user = u => Rest(c))
         => (u \in rewards <=> users[u] = RewardedOnce(u))

\* C11: the reward write is one unit of work: once no reward call of a user
\* is in flight (the calls returned or failed), a user row that carries a
\* reward of this battle has its BattleReward row
C11RewardAtomic ==
  \A u \in Users :
    (\A c \in Calls : calls[c].op = "reward" /\ calls[c].user = u => Rest(c))
      => (users[u] # InitialUsers[u] => u \in rewards)

\* C12: the stack count of an active buff is always 1, 2 or 3, and an
\* applyBuff on an attribute whose active buff has 3 stacks changes neither
\* the attribute, nor the stack count, nor the remaining turns, and returns
\* success
C12StackLimit ==
  /\ [](\A p \in Pids, a \in Attrs :
          buffs[p][a].remainingTurns > 0 => buffs[p][a].stackCount \in 1..3)
  /\ [][\A a \in Attrs :
          (/\ probe'.op = "applyBuff" /\ probe'.calls = probe.calls + 1
           /\ probe'.attribute = a
           /\ buffs["P1"][a].remainingTurns > 0
           /\ buffs["P1"][a].stackCount = 3)
            => /\ parts' = parts
               /\ buffs' = buffs
               /\ probe'.ret = TRUE]_vars

C12Witness ==
  /\ probe.op = "applyBuff" /\ probe.attribute = "speed" /\ probe.calls = 4
  /\ probe.ret = TRUE
  /\ buffs["P1"]["speed"] = [value |-> 3, remainingTurns |-> 3, stackCount |-> 3]
  /\ parts["P1"].currentSpeed = InitialParts["P1"].currentSpeed + 3

\* C13: buff round trip: whatever buffs and debuffs were applied to an
\* attribute, once its buff has run out (the tick that brings the remaining
\* turns to 0 has subtracted the buff's total) the attribute is back at the
\* value it had before the first application.  Stated on speed, the
\* attribute no status effect touches.
C13BuffRoundTrip ==
  buffs["P1"]["speed"].remainingTurns = 0
    => parts["P1"].currentSpeed = InitialParts["P1"].currentSpeed

\* C14: burn round trip: the tick of a burn with one remaining turn ends the
\* burn and leaves the physical attack at the value it has apart from the
\* burn: the value before the burn, changed only by what buffs added and
\* their expiry took off since
C14BurnRoundTrip ==
  [][(/\ probe'.op = "tick" /\ probe'.calls = probe.calls + 1
      /\ statusEffects["P1"]["burn"].remainingTurns = 1)
       => /\ statusEffects'["P1"]["burn"].remainingTurns = 0
          /\ parts'["P1"].currentPhysicalAttack = probe'.unburnt]_vars

\* The messages of the results the turn gives to actions it does not resolve
FizzleMessages ==
  {"target already defeated", "cannot act", "skill not found", "skill not equipped"}

\* C15: an action refused by the per-actor checks of the turn (the target is
\* at health <= 0 among the participants the call loaded, the skill id has no
\* Skill row, or the actor is a user's participant and the skill is not
\* equipped) gives the actor a result with damage 0, no hit and a message
\* saying why, changes no participant, effect, buff or battle row, and the
\* call goes on to the next participant or to the end of the turn; every
\* turn call that returns, returns a result and not an error
C15RefusedActionIsNoOp ==
  /\ [](\A c \in Calls :
          (calls[c].op = "turn" /\ calls[c].pc = "done") => calls[c].ret.status = "ok")
  /\ [][\A c \in Calls :
          LET cl == calls[c]
              p == cl.order[cl.idx]
              a == cl.actions[p]
          IN  (/\ cl.pc = "act"
               /\ calls'[c] # cl
               /\ cl.mem[p].currentHealth > 0
               /\ a.set
               /\ \/ cl.mem[a.targetId].currentHealth <= 0
                  \/ a.skillId \notin DOMAIN Skills
                  \/ /\ Roster[p].participantType = "user"
                     /\ a.skillId \notin UserTemplates[Roster[p].userId].equipped)
                => /\ calls'[c].results[p].set
                   /\ calls'[c].results[p].damage = 0
                   /\ ~calls'[c].results[p].accuracy
                   /\ calls'[c].results[p].message \in FizzleMessages
                   /\ UNCHANGED <<battle, parts, statusEffects, buffs>>
                   /\ \/ calls'[c].pc = "act" /\ calls'[c].idx = cl.idx + 1
                      \/ calls'[c].pc = "sweep"
                   /\ \A q \in Pids \ {p} : calls'[c].results[q] = cl.results[q]]_vars

C15Witness ==
  /\ calls[1].op = "turn" /\ calls[1].pc = "done"
  /\ calls[1].ret.status = "ok" /\ calls[1].ret.turnNumber = 1
  /\ battle.currentTurn = 1
  /\ calls[1].results["P1"] = Fizzle("skill not equipped")
  /\ calls[1].results["E1"].accuracy /\ calls[1].results["E1"].damage > 0
  /\ parts["P1"].currentHealth < InitialParts["P1"].currentHealth
  /\ parts["E1"] = InitialParts["E1"] /\ parts["E2"] = InitialParts["E2"]

\* The immunities: <<skill type, defender type>> with the defender immune
ImmunePairs ==
  {<<"electric", "earth">>, <<"fighting", "ghost">>, <<"normal", "ghost">>,
   <<"psychic", "dark">>, <<"earth", "flying">>}

\* C16: for every skill type and defender type with the defender immune to
\* the skill's type, calculateElementalAdvantage returns 0 and a hit computed
\* by calculateDamage has damage exactly 0, whatever the attack, the defense,
\* the base power, the same-type bonus, the critical and the variance
C16ImmuneDealsZero ==
  /\ (/\ probe.op = "calculateElementalAdvantage" /\ probe.done
      /\ <<probe.args.attackerType, probe.args.defenderType>> \in ImmunePairs)
       => probe.result = 0
  /\ (/\ probe.op = "calculateDamage" /\ probe.done
      /\ probe.args.types \in ImmunePairs
      /\ probe.result.accuracy)
       => probe.result.damageKind = "integer" /\ probe.result.damage = 0

C16Witness ==
  /\ probe.op = "calculateDamage" /\ probe.done
  /\ probe.args.types = <<"normal", "ghost">>
  /\ probe.args.attack = MaxStat /\ probe.args.defense = 0
  /\ probe.args.baseDamage = MaxBaseDamage /\ probe.args.stab
  /\ probe.result.accuracy /\ probe.result.isCritical
  /\ probe.result.damage = 0

\* C17: every hit whose type multiplier is not 0 has an integer damage of at
\* least 1, for all the attack, defense and base-power values a participant
\* can have after buffs and debuffs and for every same-type bonus, critical
\* and variance
C17DamageAtLeastOne ==
  (/\ probe.op = "calculateDamage" /\ probe.done
   /\ probe.result.accuracy
   /\ probe.args.types \notin ImmunePairs)
    => probe.result.damageKind = "integer" /\ probe.result.damage >= 1

\* C18: calculateDamage applies a defense floor of 1: with a relevant defense
\* of 0 or lower the damage of a hit is the damage computed with defense 1
C18DefenseFloor ==
  (/\ probe.op = "calculateDamage" /\ probe.done
   /\ probe.result.accuracy
   /\ probe.args.defense <= 0)
    => /\ probe.result.damageKind = "integer"
       /\ probe.result.damage =
            damageOf(probe.args.attack, 1, probe.args.baseDamage,
                     IF probe.args.stab THEN 3 ELSE 2,
                     calculateElementalAdvantage(probe.args.types[1], probe.args.types[2]),
                     probe.draw.crit, probe.draw.variance)

\* C19: for distinct types A and D with D not immune to A and A not listed
\* as advantaged against D, calculateElementalAdvantage(A, D) is 0.5 when D
\* is listed as advantaged against A in the advantage table, and 1.0
\* otherwise
C19ReverseAdvantageHalves ==
  LET A == probe.args.attackerType
      D == probe.args.defenderType
  IN  (/\ probe.op = "calculateElementalAdvantage" /\ probe.done
       /\ A # D
       /\ <<A, D>> \notin ImmunePairs
       /\ D \notin advantageTable(A))
        => probe.result = IF A \in advantageTable(D) THEN 1 ELSE 2

\* floor(100 * 1.5^(l-1)), and its sum over the levels from .. to - 1
requirement(l) == (100 * Pow(3, l - 1)) \div Pow(2, l - 1)

RECURSIVE requirementSum(_, _)
requirementSum(from, to) ==
  IF from >= to THEN 0 ELSE requirement(from) + requirementSum(from + 1, to)

\* C20: for every level >= 1, experience >= 0 and gain >= 0, checkLevelUp
\* ends with a new level, a new experience below the requirement of the new
\* level, the experience conserved (experience + gain = new experience + the
\* requirements of the levels passed) and 3 points per level passed; level
\* 1 with 0 experience gaining 130 gives level 2, 30 experience, 3 points
C20LevelUpConserves ==
  (probe.op = "checkLevelUp" /\ probe.done)
    => LET a == probe.args
           r == probe.result
       IN  /\ r.newLevel >= a.level
           /\ r.newExp >= 0
           /\ r.newExp < requirement(r.newLevel)
           /\ a.exp + a.gained = r.newExp + requirementSum(a.level, r.newLevel)
           /\ r.newAttributePoints = 3 * (r.newLevel - a.level)
           /\ r.leveledUp = (r.newLevel > a.level)
           /\ (a.level = 1 /\ a.exp = 0 /\ a.gained = 130)
                => (r.newLevel = 2 /\ r.newExp = 30 /\ r.newAttributePoints = 3)

C20Witness ==
  /\ probe.op = "checkLevelUp" /\ probe.done
  /\ probe.args = [level |-> 1, exp |-> 0, gained |-> 130]
  /\ probe.result = [newLevel |-> 2, leveledUp |-> TRUE, newAttributePoints |-> 3,
                     newExp |-> 30]

\* C21: a participant whose stored health is <= 0 when its slot in the speed
\* order is reached resolves no action in that call: the step of its slot
\* records no result for it and changes no participant, effect, buff or
\* battle row
C21DefeatedDoesNotAct ==
  [][\A c \in Calls :
       LET cl == calls[c]
           p == cl.order[cl.idx]
       IN  (/\ cl.pc = "act"
            /\ calls'[c] # cl
            /\ parts[p].currentHealth <= 0)
             => /\ calls'[c].results[p] = cl.results[p]
                /\ UNCHANGED <<battle, parts, statusEffects, buffs>>]_vars

\* C22: an action whose target's stored health is <= 0 when the action is
\* reached applies nothing: no participant's health or stats, no status
\* effect and no buff changes, and the actor's result carries no damage
C22DefeatedTargetFizzles ==
  [][\A c \in Calls :
       LET cl == calls[c]
           p == cl.order[cl.idx]
           a == cl.actions[p]
       IN  (/\ cl.pc = "act"
            /\ calls'[c] # cl
            /\ a.set
            /\ parts[a.targetId].currentHealth <= 0)
             => /\ calls'[c].results[p].damage = 0
                /\ UNCHANGED <<parts, statusEffects, buffs>>]_vars

\* C23: within one call the actions resolve in non-increasing order of the
\* actors' speed as stored after the pre-turn tick, equal speeds in the
\* store's load order: the order the loop walks is the stored participants
\* sorted by speed
C23OrderByStoredSpeed ==
  [][\A c \in Calls :
       (calls[c].pc = "synth" /\ calls'[c].pc = "act")
         => calls'[c].order = orderParticipantsBySpeed(parts)]_vars

\* C24: effects tick once per call, before any action resolves: the tick
\* takes one turn off every active effect and subtracts every active
\* damage-over-time effect's value from its holder's health, and no other
\* step of the call touches an active effect, so that an effect created with
\* duration d deals its value in each of the next d calls and is then
\* inactive
C24DotTicksDurationTimes ==
  [][\A c \in Calls : \A p \in Pids :
       LET cl == calls[c]
           active == ActiveEffects(statusEffects, p)
       IN  /\ (cl.pc = "tick" /\ calls'[c].pc = "synth")
                => /\ \A t \in active :
                        statusEffects'[p][t].remainingTurns
                          = statusEffects[p][t].remainingTurns - 1
                   /\ parts'[p].currentHealth
                        = parts[p].currentHealth
                            - SumOver(active \cap DotTypes,
                                      [t \in StatusTypes |-> statusEffects[p][t].value])
                   /\ \A q \in Pids : cl.results[q] = NoResult
           /\ (cl.pc \in {"synth", "act", "sweep"} /\ calls'[c] # cl)
                => \A t \in active : statusEffects'[p][t] = statusEffects[p][t]]_vars

\* A poison in its last turn has just dealt its value to its holder and is
\* inactive
C24Witness ==
  \E p \in Pids :
    /\ calls[1].pc = "synth"
    /\ calls[1].mem[p].currentHealth > parts[p].currentHealth
    /\ statusEffects[p]["poison"].remainingTurns = 0

\* C25: a participant carrying an active stun or freeze when the pre-turn
\* tick runs resolves no action in that call: the tick marks exactly the
\* holders of an active stun or freeze, and the loop step of a marked
\* participant leaves a result with damage 0 and changes no participant, no
\* status effect and no buff
C25StunnedDoesNotAct ==
  [][\A c \in Calls :
       LET cl == calls[c]
       IN  /\ (cl.pc = "tick" /\ calls'[c].pc = "synth")
                => calls'[c].stunned
                     = {q \in Pids : \E t \in StunTypes \cap StatusTypes :
                                       statusEffects[q][t].remainingTurns > 0}
           /\ (cl.pc = "act" /\ calls'[c] # cl /\ cl.order[cl.idx] \in cl.stunned)
                => /\ calls'[c].results[cl.order[cl.idx]].damage = 0
                   /\ ~calls'[c].results[cl.order[cl.idx]].accuracy
                   /\ UNCHANGED <<parts, statusEffects, buffs>>]_vars

\* The player, stunned in the previous turn, submitted an action and the
\* turn ended with that action refused
C25Witness ==
  /\ calls[1].op = "turn" /\ calls[1].pc = "done"
  /\ battle.currentTurn = 2
  /\ calls[1].results["P1"] = Fizzle("cannot act")

\* C26: a participant never holds two active status effects of the same
\* type: applyStatusEffect on a participant that has an active effect of that
\* type returns false and changes no status effect and no attribute, so a
\* second burn does not reduce the physical attack again
C26NoSecondEffectOfAType ==
  [][(/\ probe'.op = "applyStatusEffect" /\ probe'.calls = probe.calls + 1
      /\ statusEffects["P1"]["burn"].remainingTurns > 0)
       => /\ ~probe'.ret
          /\ UNCHANGED <<parts, statusEffects, buffs>>]_vars

\* applyStatusEffect has returned false on a burning participant whose
\* physical attack another burn would have reduced
C26Witness ==
  /\ probe.op = "applyStatusEffect" /\ ~probe.ret
  /\ statusEffects["P1"]["burn"].remainingTurns > 0
  /\ burnReduction(parts["P1"].currentPhysicalAttack) > 0

\* C27: when the call completes the enemy actions, every enemy-team
\* participant with stored health > 0 and no submitted action gets one
\* action, with a skill of its loadout and a player-team target whose stored
\* health is > 0; an enemy with stored health <= 0 or with a submitted action
\* gets none
C27EnemyActionsCompleted ==
  [][\A c \in Calls : \A e \in TeamPids("enemy") :
       LET cl == calls[c]
           given == calls'[c].actions[e]
       IN  (cl.pc = "synth" /\ calls'[c].pc = "act")
             => IF parts[e].currentHealth > 0 /\ ~cl.actions[e].set
                THEN /\ given.set
                     /\ given.skillId \in TemplateOf(e).skills
                     /\ given.targetId \in TeamPids("player")
                     /\ parts[given.targetId].currentHealth > 0
                ELSE given = cl.actions[e]]_vars

\* C28: the difficulty level handed to the enemy AI for an enemy participant
\* is the level of the enemy's rarity tier (common 1 .. legendary 5), moved
\* by one for a level gap to the player of more than 5, at least 4 for a
\* boss, and kept within 1 .. 5
C28DifficultyFromRarity ==
  (probe.op = "completeEnemyActions" /\ probe.done)
    => probe.difficultyLevel
         = determineDifficultyLevel(probe.args.enemy, probe.args.player)

\* C29: whenever a turn call marks the battle finished with winning team T,
\* mid-turn or at the end-of-turn sweep, the recorded winnerId is a
\* participant of T whose stored health is > 0, so a team whose members are
\* all at health <= 0 is never declared the winner
C29WinnerIsAlive ==
  [][\A c \in Calls :
       (/\ calls[c].op = "turn" /\ calls'[c] # calls[c]
        /\ ~battle.isFinished /\ battle'.isFinished)
         => battle'.winnerId \in {p \in TeamPids(calls'[c].ret.winnerTeam) :
                                    parts'[p].currentHealth > 0}]_vars

\* C30: rewards go only to a user who owns a participant of the battle: a
\* reward call for a user no participant of the battle belongs to changes
\* neither that user's level, experience and points nor the reward ledger,
\* and returns an error
C30RewardOnlyForParticipant ==
  [][\A c \in Calls :
       (/\ calls[c].op = "reward" /\ calls'[c] # calls[c]
        /\ participantsOf(calls[c].user) = {})
         => /\ users' = users
            /\ rewards' = rewards
            /\ Returns(c, "reward") => calls'[c].rret.status = "error"]_vars

====
